---- MODULE Spec2Model ----
(***************************************************************************)
(* Model of kontrol/keypair.go: the KeyPair entity, KeyPair.Validate and   *)
(* MemKeyPairStorage, the in-memory KeyPairStorage that keeps two          *)
(* koding/cache memory caches, one keyed by KeyPair.ID and one keyed by    *)
(* KeyPair.Public.                                                         *)
(*                                                                         *)
(* Strings are TLA+ strings, "" is Go's empty string.  A cache is a        *)
(* function from the keys it holds to the values stored under them.  The   *)
(* caches hold interface{} values, so a stored value carries its dynamic   *)
(* type next to the KeyPair it points to.                                  *)
(***************************************************************************)
EXTENDS Naturals, Sequences, FiniteSets

\* Number of distinct non-empty strings used as ids, public keys, private keys.
NumIDs == 2
NumPublics == 2
NumPrivates == 1

\* Number of calls made in a behaviour: every sequence (Spec) and every
\* interleaving (SpecConcurrent) of up to MaxCalls calls is explored.
MaxCalls == 3

IDNames == <<"h1", "h2", "h3", "h4">>
PublicNames == <<"pub1", "pub2", "pub3", "pub4">>
PrivateNames == <<"priv1", "priv2", "priv3">>

IDs == {""} \cup {IDNames[i] : i \in 1..NumIDs}
Publics == {""} \cup {PublicNames[i] : i \in 1..NumPublics}
Privates == {""} \cup {PrivateNames[i] : i \in 1..NumPrivates}

\* type KeyPair struct { ID, Public, Private string }
KeyPair == [ID : IDs, Public : Publics, Private : Privates]

\* A nil *KeyPair, as returned next to a non-nil error.
NilKeyPair == [nil |-> TRUE]

\* The nil error.
Nil == "nil"

\* koding/cache's ErrNotFound, returned by Get for a key the cache lacks.
ErrNotFound == "not found"

ErrIDEmpty == "KeyPair ID field is empty"
ErrPublicEmpty == "KeyPair Public field is empty"
ErrPrivateEmpty == "KeyPair Private field is empty"
ValidationErrors == {ErrIDEmpty, ErrPublicEmpty, ErrPrivateEmpty}

ErrMalformedID == "MemKeyPairStorage: GetKeyFromID value is malformed"
ErrMalformedPublic == "MemKeyPairStorage: GetKeyFromPublic value is malformed"
CorruptErrors == {ErrMalformedID, ErrMalformedPublic}

\* The goroutines that call the store concurrently: two, each making one call
\* after another, so that any two calls can overlap at any pair of statements.
Threads == {"t1", "t2"}

VARIABLES
    id,       \* MemKeyPairStorage.id: cache keyed by KeyPair.ID
    public,   \* MemKeyPairStorage.public: cache keyed by KeyPair.Public
    op,       \* the last completed call of a single caller: name and argument
    ret,      \* what that call returned: [val, err]
    calls,    \* how many calls have been made
    pc,       \* per goroutine: the statement of AddKey/DeleteKey it is at
    req,      \* per goroutine: the keyPair argument of the call in progress
    k,        \* per goroutine: DeleteKey's local k, set by GetKeyFromID
    log,      \* history: the AddKey/DeleteKey calls begun, in order
    owner     \* history: for each Public stored by AddKey, the ID it came with

store == <<id, public>>
caller == <<op, ret>>
goroutines == <<pc, req, k>>
history == <<log, owner>>
vars == <<id, public, op, ret, calls, pc, req, k, log, owner>>

----------------------------------------------------------------------------
\* koding/cache Memory, as used by the store: Set, Get, Delete on one key.

EmptyCache == << >>

CacheSet(c, key, value) ==
    [x \in (DOMAIN c) \cup {key} |-> IF x = key THEN value ELSE c[x]]

CacheDelete(c, key) ==
    [x \in (DOMAIN c) \ {key} |-> c[x]]

CacheGet(c, key) ==
    IF key \in DOMAIN c
    THEN [val |-> c[key], err |-> Nil]
    ELSE [val |-> NilKeyPair, err |-> ErrNotFound]

\* The interface{} value the store puts in a cache: a *KeyPair.
PtrKeyPair(keyPair) == [type |-> "*KeyPair", ptr |-> keyPair]

----------------------------------------------------------------------------
\* Validate with the Public check moved in front of the ID check.
ValidatePublicFirst(keyPair) ==
    IF keyPair.Public = "" THEN ErrPublicEmpty
    ELSE IF keyPair.ID = "" THEN ErrIDEmpty
    ELSE IF keyPair.Private = "" THEN ErrPrivateEmpty
    ELSE Nil

\* Validate without the check of Private.
ValidateSkipsPrivate(keyPair) ==
    IF keyPair.ID = "" THEN ErrIDEmpty
    ELSE IF keyPair.Public = "" THEN ErrPublicEmpty
    ELSE Nil

\* func (k *KeyPair) Validate() error

Validate(keyPair) ==
    IF keyPair.ID = "" THEN ErrIDEmpty
    ELSE IF keyPair.Public = "" THEN ErrPublicEmpty
    ELSE IF keyPair.Private = "" THEN ErrPrivateEmpty
    ELSE Nil

\* func NewMemKeyPairStorage() *MemKeyPairStorage
NewMemKeyPairStorage == [id |-> EmptyCache, public |-> EmptyCache]

\* func (m *MemKeyPairStorage) GetKeyFromID(id string) (*KeyPair, error)
GetKeyFromID(m, i) ==
    LET g == CacheGet(m.id, i) IN
    IF g.err # Nil THEN [val |-> NilKeyPair, err |-> g.err]
    ELSE IF g.val.type # "*KeyPair" THEN [val |-> NilKeyPair, err |-> ErrMalformedID]
    ELSE [val |-> g.val.ptr, err |-> Nil]

\* func (m *MemKeyPairStorage) GetKeyFromPublic(public string) (*KeyPair, error)
GetKeyFromPublic(m, p) ==
    LET g == CacheGet(m.public, p) IN
    IF g.err # Nil THEN [val |-> NilKeyPair, err |-> g.err]
    ELSE IF g.val.type # "*KeyPair" THEN [val |-> NilKeyPair, err |-> ErrMalformedPublic]
    ELSE [val |-> g.val.ptr, err |-> Nil]

\* IsValid that looks its argument up in the id cache.
IsValidLooksUpByID(m, p) == GetKeyFromID(m, p).err

\* func (m *MemKeyPairStorage) IsValid(public string) error
IsValid(m, p) == GetKeyFromPublic(m, p).err

\* m.id.Set(keyPair.ID, keyPair)
AddKeySetID(m, keyPair) ==
    [m EXCEPT !.id = CacheSet(m.id, keyPair.ID, PtrKeyPair(keyPair))]

\* The second Set keyed by keyPair.ID, as the first one is.
AddKeySetPublicKeyedByID(m, keyPair) ==
    [m EXCEPT !.public = CacheSet(m.public, keyPair.ID, PtrKeyPair(keyPair))]

\* m.public.Set(keyPair.Public, keyPair)
AddKeySetPublic(m, keyPair) ==
    [m EXCEPT !.public = CacheSet(m.public, keyPair.Public, PtrKeyPair(keyPair))]

\* The error of an AddKey that refuses a public key stored under another id.
ErrPublicInUse == "KeyPair Public is in use"

\* AddKey that refuses a public key the public cache holds for another id.
AddKeyRejectsPublicReuse(m, keyPair) ==
    LET e == Validate(keyPair)
        g == GetKeyFromPublic(m, keyPair.Public)
    IN IF e # Nil THEN [m |-> m, err |-> e]
       ELSE IF g.err = Nil /\ g.val.ID # keyPair.ID THEN [m |-> m, err |-> ErrPublicInUse]
       ELSE [m |-> AddKeySetPublic(AddKeySetID(m, keyPair), keyPair), err |-> Nil]

\* AddKey that validates only after its two writes.
AddKeyValidatesAfterWrites(m, keyPair) ==
    [m |-> AddKeySetPublic(AddKeySetID(m, keyPair), keyPair), err |-> Validate(keyPair)]

\* AddKey that first drops the public-index entry of the KeyPair it overwrites.
AddKeyDropsOldPublic(m, keyPair) ==
    LET e == Validate(keyPair)
        old == GetKeyFromID(m, keyPair.ID)
        m0 == IF old.err = Nil
              THEN [m EXCEPT !.public = CacheDelete(m.public, old.val.Public)]
              ELSE m
    IN IF e # Nil THEN [m |-> m, err |-> e]
       ELSE [m |-> AddKeySetPublic(AddKeySetID(m0, keyPair), keyPair), err |-> Nil]

\* func (m *MemKeyPairStorage) AddKey(keyPair *KeyPair) error
\* The store after the call and the error returned.
AddKey(m, keyPair) ==
    LET e == Validate(keyPair) IN
    IF e # Nil THEN [m |-> m, err |-> e]
    ELSE [m |-> AddKeySetPublic(AddKeySetID(m, keyPair), keyPair), err |-> Nil]

\* The public Delete keyed by the Public of what the id cache holds now.
DeleteKeyDeletePublicOfCurrent(m, found) ==
    LET g == GetKeyFromID(m, found.ID) IN
    IF g.err # Nil THEN m
    ELSE [m EXCEPT !.public = CacheDelete(m.public, g.val.Public)]

\* m.public.Delete(k.Public), k being what GetKeyFromID returned
DeleteKeyDeletePublic(m, found) ==
    [m EXCEPT !.public = CacheDelete(m.public, found.Public)]

\* The id Delete keyed by keyPair.Public.
DeleteKeyDeleteIDKeyedByPublic(m, keyPair) ==
    [m EXCEPT !.id = CacheDelete(m.id, keyPair.Public)]

\* m.id.Delete(keyPair.ID)
DeleteKeyDeleteID(m, keyPair) ==
    [m EXCEPT !.id = CacheDelete(m.id, keyPair.ID)]

\* DeleteKey that resolves the id whether or not keyPair.Public is empty.
DeleteKeyAlwaysLooksUp(m, keyPair) ==
    LET g == GetKeyFromID(m, keyPair.ID) IN
    IF g.err # Nil THEN [m |-> m, err |-> g.err]
    ELSE [m |-> DeleteKeyDeleteID(DeleteKeyDeletePublic(m, g.val), keyPair),
          err |-> Nil]

\* DeleteKey that deletes keyPair.Public, not k.Public, from the public cache.
DeleteKeyByRequestPublic(m, keyPair) ==
    IF keyPair.Public = ""
    THEN LET g == GetKeyFromID(m, keyPair.ID) IN
         IF g.err # Nil THEN [m |-> m, err |-> g.err]
         ELSE [m |-> DeleteKeyDeleteID(DeleteKeyDeletePublic(m, keyPair), keyPair),
               err |-> Nil]
    ELSE [m |-> DeleteKeyDeleteID(m, keyPair), err |-> Nil]

\* DeleteKey that drops the error of GetKeyFromID and returns nil.
DeleteKeySwallowsLookupError(m, keyPair) ==
    IF keyPair.Public = ""
    THEN LET g == GetKeyFromID(m, keyPair.ID) IN
         IF g.err # Nil THEN [m |-> m, err |-> Nil]
         ELSE [m |-> DeleteKeyDeleteID(DeleteKeyDeletePublic(m, g.val), keyPair),
               err |-> Nil]
    ELSE [m |-> DeleteKeyDeleteID(m, keyPair), err |-> Nil]

\* func (m *MemKeyPairStorage) DeleteKey(keyPair *KeyPair) error
\* The store after the call and the error returned.
DeleteKey(m, keyPair) ==
    IF keyPair.Public = ""
    THEN LET g == GetKeyFromID(m, keyPair.ID) IN
         IF g.err # Nil THEN [m |-> m, err |-> g.err]
         ELSE [m |-> DeleteKeyDeleteID(DeleteKeyDeletePublic(m, g.val), keyPair),
               err |-> Nil]
    ELSE [m |-> DeleteKeyDeleteID(m, keyPair), err |-> Nil]

----------------------------------------------------------------------------
\* The store as one value, and the calls a single caller makes one at a time.
\* Each action is one whole call.

Store == [id |-> id, public |-> public]

NoCall == [name |-> "New", arg |-> ""]

Init ==
    /\ id = NewMemKeyPairStorage.id
    /\ public = NewMemKeyPairStorage.public
    /\ op = NoCall
    /\ ret = [val |-> NilKeyPair, err |-> Nil]
    /\ calls = 0
    /\ pc = [t \in Threads |-> "idle"]
    /\ req = [t \in Threads |-> NilKeyPair]
    /\ k = [t \in Threads |-> NilKeyPair]
    /\ log = << >>
    /\ owner = << >>

CallValidate(keyPair) ==
    /\ calls < MaxCalls
    /\ op' = [name |-> "Validate", arg |-> keyPair]
    /\ ret' = [val |-> NilKeyPair, err |-> Validate(keyPair)]
    /\ calls' = calls + 1
    /\ UNCHANGED <<store, goroutines, history>>

InvokeAddKey(keyPair) ==
    LET r == AddKey(Store, keyPair) IN
    /\ calls < MaxCalls
    /\ id' = r.m.id
    /\ public' = r.m.public
    /\ op' = [name |-> "AddKey", arg |-> keyPair]
    /\ ret' = [val |-> NilKeyPair, err |-> r.err]
    /\ calls' = calls + 1
    /\ UNCHANGED goroutines

CallAddKey(keyPair) ==
    /\ InvokeAddKey(keyPair)
    /\ UNCHANGED history

CallDeleteKey(keyPair) ==
    LET r == DeleteKey(Store, keyPair) IN
    /\ calls < MaxCalls
    /\ id' = r.m.id
    /\ public' = r.m.public
    /\ op' = [name |-> "DeleteKey", arg |-> keyPair]
    /\ ret' = [val |-> NilKeyPair, err |-> r.err]
    /\ calls' = calls + 1
    /\ UNCHANGED <<goroutines, history>>

CallGetKeyFromID(i) ==
    /\ calls < MaxCalls
    /\ op' = [name |-> "GetKeyFromID", arg |-> i]
    /\ ret' = GetKeyFromID(Store, i)
    /\ calls' = calls + 1
    /\ UNCHANGED <<store, goroutines, history>>

CallGetKeyFromPublic(p) ==
    /\ calls < MaxCalls
    /\ op' = [name |-> "GetKeyFromPublic", arg |-> p]
    /\ ret' = GetKeyFromPublic(Store, p)
    /\ calls' = calls + 1
    /\ UNCHANGED <<store, goroutines, history>>

CallIsValid(p) ==
    /\ calls < MaxCalls
    /\ op' = [name |-> "IsValid", arg |-> p]
    /\ ret' = [val |-> NilKeyPair, err |-> IsValid(Store, p)]
    /\ calls' = calls + 1
    /\ UNCHANGED <<store, goroutines, history>>

Next ==
    \/ \E keyPair \in KeyPair : CallValidate(keyPair)
    \/ \E keyPair \in KeyPair : CallAddKey(keyPair)
    \/ \E keyPair \in KeyPair : CallDeleteKey(keyPair)
    \/ \E i \in IDs : CallGetKeyFromID(i)
    \/ \E p \in Publics : CallGetKeyFromPublic(p)
    \/ \E p \in Publics : CallIsValid(p)

Spec == Init /\ [][Next]_vars

----------------------------------------------------------------------------
\* Concurrent callers.  Each goroutine runs AddKey and DeleteKey statement by
\* statement; one cache operation (Set, Get, Delete) is one atomic step, as
\* the memory cache locks around each.  Validate and the test of
\* keyPair.Public read only the goroutine's own argument and are taken
\* together with the start of the call.

\* The call returns e: the goroutine is idle again and its locals are gone.
Return(t, e) ==
    /\ pc' = [pc EXCEPT ![t] = "idle"]
    /\ req' = [req EXCEPT ![t] = NilKeyPair]
    /\ k' = [k EXCEPT ![t] = NilKeyPair]

\* AddKey: keyPair.Validate(), returning its error if there is one.
AddKeyEnter(t, keyPair) ==
    /\ pc[t] = "idle"
    /\ calls < MaxCalls
    /\ calls' = calls + 1
    /\ IF Validate(keyPair) # Nil
       THEN Return(t, Validate(keyPair))
       ELSE /\ pc' = [pc EXCEPT ![t] = "AddKey.id.Set"]
            /\ req' = [req EXCEPT ![t] = keyPair]
            /\ UNCHANGED k
    /\ UNCHANGED <<store, caller>>

AddKeyBegin(t, keyPair) ==
    /\ AddKeyEnter(t, keyPair)
    /\ UNCHANGED history

\* The first write of AddKey made under one lock together with the second.
AddKeyIDSetWritesBoth(t) ==
    /\ pc[t] = "AddKey.id.Set"
    /\ id' = AddKeySetID(Store, req[t]).id
    /\ public' = AddKeySetPublic(Store, req[t]).public
    /\ pc' = [pc EXCEPT ![t] = "AddKey.public.Set"]
    /\ UNCHANGED <<caller, calls, req, k, history>>

\* The two Set statements of AddKey swapped: the public cache is written first.
AddKeyIDSetWritesPublicFirst(t) ==
    /\ pc[t] = "AddKey.id.Set"
    /\ public' = AddKeySetPublic(Store, req[t]).public
    /\ pc' = [pc EXCEPT ![t] = "AddKey.public.Set"]
    /\ UNCHANGED <<id, caller, calls, req, k, history>>

\* AddKey: m.id.Set(keyPair.ID, keyPair)
AddKeyIDSet(t) ==
    /\ pc[t] = "AddKey.id.Set"
    /\ id' = AddKeySetID(Store, req[t]).id
    /\ pc' = [pc EXCEPT ![t] = "AddKey.public.Set"]
    /\ UNCHANGED <<public, caller, calls, req, k, history>>

\* AddKey: m.public.Set(keyPair.Public, keyPair); return nil
AddKeyPublicSet(t) ==
    /\ pc[t] = "AddKey.public.Set"
    /\ public' = AddKeySetPublic(Store, req[t]).public
    /\ Return(t, Nil)
    /\ UNCHANGED <<id, caller, calls, history>>

\* DeleteKey: if keyPair.Public == ""
DeleteKeyEnter(t, keyPair) ==
    /\ pc[t] = "idle"
    /\ calls < MaxCalls
    /\ calls' = calls + 1
    /\ pc' = [pc EXCEPT ![t] = IF keyPair.Public = ""
                                THEN "DeleteKey.GetKeyFromID"
                                ELSE "DeleteKey.id.Delete"]
    /\ req' = [req EXCEPT ![t] = keyPair]
    /\ UNCHANGED <<store, caller, k>>

DeleteKeyBegin(t, keyPair) ==
    /\ DeleteKeyEnter(t, keyPair)
    /\ UNCHANGED history

\* DeleteKey: k, err := m.GetKeyFromID(keyPair.ID); if err != nil { return err }
DeleteKeyGetKeyFromID(t) ==
    /\ pc[t] = "DeleteKey.GetKeyFromID"
    /\ LET g == GetKeyFromID(Store, req[t].ID) IN
       IF g.err # Nil
       THEN Return(t, g.err)
       ELSE /\ k' = [k EXCEPT ![t] = g.val]
            /\ pc' = [pc EXCEPT ![t] = "DeleteKey.public.Delete"]
            /\ UNCHANGED req
    /\ UNCHANGED <<store, caller, calls, history>>

\* The two Deletes of DeleteKey swapped: the id cache entry goes first.
DeleteKeyPublicDeleteDeletesIDFirst(t) ==
    /\ pc[t] = "DeleteKey.public.Delete"
    /\ id' = DeleteKeyDeleteID(Store, req[t]).id
    /\ pc' = [pc EXCEPT ![t] = "DeleteKey.id.Delete"]
    /\ UNCHANGED <<public, caller, calls, req, k, history>>

\* DeleteKey: m.public.Delete(k.Public)
DeleteKeyPublicDelete(t) ==
    /\ pc[t] = "DeleteKey.public.Delete"
    /\ public' = DeleteKeyDeletePublic(Store, k[t]).public
    /\ pc' = [pc EXCEPT ![t] = "DeleteKey.id.Delete"]
    /\ UNCHANGED <<id, caller, calls, req, k, history>>

\* DeleteKey: m.id.Delete(keyPair.ID); return nil
DeleteKeyIDDelete(t) ==
    /\ pc[t] = "DeleteKey.id.Delete"
    /\ id' = DeleteKeyDeleteID(Store, req[t]).id
    /\ Return(t, Nil)
    /\ UNCHANGED <<public, caller, calls, history>>

\* DeleteKey never reads keyPair.Private: the requests leave it empty.
DeleteRequests == {keyPair \in KeyPair : keyPair.Private = ""}

NextConcurrent ==
    \/ \E t \in Threads, keyPair \in KeyPair : AddKeyBegin(t, keyPair)
    \/ \E t \in Threads : AddKeyIDSet(t)
    \/ \E t \in Threads : AddKeyPublicSet(t)
    \/ \E t \in Threads, keyPair \in DeleteRequests : DeleteKeyBegin(t, keyPair)
    \/ \E t \in Threads : DeleteKeyGetKeyFromID(t)
    \/ \E t \in Threads : DeleteKeyPublicDelete(t)
    \/ \E t \in Threads : DeleteKeyIDDelete(t)

SpecConcurrent == Init /\ [][NextConcurrent]_vars

----------------------------------------------------------------------------
\* Concurrent callers with the calls they make recorded: the same steps, the
\* start of each AddKey and DeleteKey appended to log.

CallRecord(name, keyPair) == [name |-> name, arg |-> keyPair]

AddKeyBeginLogged(t, keyPair) ==
    /\ AddKeyEnter(t, keyPair)
    /\ log' = Append(log, CallRecord("AddKey", keyPair))
    /\ UNCHANGED owner

DeleteKeyBeginLogged(t, keyPair) ==
    /\ DeleteKeyEnter(t, keyPair)
    /\ log' = Append(log, CallRecord("DeleteKey", keyPair))
    /\ UNCHANGED owner

NextLogged ==
    \/ \E t \in Threads, keyPair \in KeyPair : AddKeyBeginLogged(t, keyPair)
    \/ \E t \in Threads : AddKeyIDSet(t)
    \/ \E t \in Threads : AddKeyPublicSet(t)
    \/ \E t \in Threads, keyPair \in DeleteRequests : DeleteKeyBeginLogged(t, keyPair)
    \/ \E t \in Threads : DeleteKeyGetKeyFromID(t)
    \/ \E t \in Threads : DeleteKeyPublicDelete(t)
    \/ \E t \in Threads : DeleteKeyIDDelete(t)

SpecLogged == Init /\ [][NextLogged]_vars

----------------------------------------------------------------------------
\* A single caller whose producers do not reuse a Public across IDs: AddKey
\* and DeleteKey calls one at a time, an AddKey that passes Validate made only
\* with a Public that no earlier stored KeyPair carried under another ID.
\* Rejected AddKeys and DeleteKeys of either form are unrestricted.

NoReuse(keyPair) ==
    (Validate(keyPair) = Nil /\ keyPair.Public \in DOMAIN owner)
        => owner[keyPair.Public] = keyPair.ID

CallAddKeyNoReuse(keyPair) ==
    /\ NoReuse(keyPair)
    /\ InvokeAddKey(keyPair)
    /\ owner' = IF Validate(keyPair) = Nil
                 THEN [p \in DOMAIN owner \cup {keyPair.Public} |->
                          IF p = keyPair.Public THEN keyPair.ID ELSE owner[p]]
                 ELSE owner
    /\ UNCHANGED log

NextNoReuse ==
    \/ \E keyPair \in KeyPair : CallAddKeyNoReuse(keyPair)
    \/ \E keyPair \in KeyPair : CallDeleteKey(keyPair)

SpecNoReuse == Init /\ [][NextNoReuse]_vars

----------------------------------------------------------------------------
\* Properties.

\* A KeyPair is structurally valid iff all three fields are non-empty.
StructurallyValid(keyPair) ==
    keyPair.ID # "" /\ keyPair.Public # "" /\ keyPair.Private # ""

Found(keyPair) == [val |-> keyPair, err |-> Nil]

\* C1 (P3, delete removes both indexes): when AddKey(x) has succeeded and the
\* next call is DeleteKey(x) with the same KeyPair, Public populated, then
\* afterwards GetKeyFromID(x.ID) and GetKeyFromPublic(x.Public) both fail
\* with the not-found error.
C1_DeleteRemovesBothIndexes ==
    [][(/\ op.name = "AddKey"
        /\ ret.err = Nil
        /\ op'.name = "DeleteKey"
        /\ op'.arg = op.arg)
       => /\ GetKeyFromID(Store', op.arg.ID).err = ErrNotFound
          /\ GetKeyFromPublic(Store', op.arg.Public).err = ErrNotFound]_vars

\* C2 (P5, validity reflects presence): after every call, IsValid(p) succeeds
\* iff some KeyPair resolvable through the id cache has Public = p; and once
\* the KeyPair x stored under an id is deleted by DeleteKey, with Public
\* empty or set to x.Public, IsValid(x.Public) fails with not-found.
C2_ValidityReflectsPresence ==
    [][/\ \A p \in Publics :
            (IsValid(Store', p) = Nil)
            <=> (\E i \in IDs : /\ GetKeyFromID(Store', i).err = Nil
                                /\ GetKeyFromID(Store', i).val.Public = p)
       /\ \A x \in KeyPair :
            (/\ op'.name = "DeleteKey"
             /\ op'.arg.ID = x.ID
             /\ op'.arg.Public \in {"", x.Public}
             /\ GetKeyFromID(Store, x.ID) = Found(x))
            => IsValid(Store', x.Public) = ErrNotFound]_vars

\* C3 (P1, validation gate): an AddKey of a KeyPair with an empty ID, Public
\* or Private returns one of Validate's errors and leaves both caches exactly
\* as they were.
C3_ValidationGate ==
    [][(op'.name = "AddKey" /\ ~StructurallyValid(op'.arg))
       => /\ ret'.err \in ValidationErrors
          /\ id' = id
          /\ public' = public
          /\ GetKeyFromID(Store', op'.arg.ID) = GetKeyFromID(Store, op'.arg.ID)
          /\ GetKeyFromPublic(Store', op'.arg.Public)
                = GetKeyFromPublic(Store, op'.arg.Public)]_vars

\* C3's case: a rejected AddKey on a store that holds entries.
C3_Witness ==
    /\ op.name = "AddKey"
    /\ ~StructurallyValid(op.arg)
    /\ ret.err \in ValidationErrors
    /\ DOMAIN id # {}
    /\ DOMAIN public # {}

\* C4 (P2, round trip): right after AddKey of a structurally valid KeyPair x,
\* whatever the store held, the call has returned nil, GetKeyFromID(x.ID)
\* returns x and GetKeyFromPublic(x.Public) returns x, field for field.
C4_RoundTrip ==
    (op.name = "AddKey" /\ StructurallyValid(op.arg))
    => /\ ret.err = Nil
       /\ GetKeyFromID(Store, op.arg.ID) = Found(op.arg)
       /\ GetKeyFromPublic(Store, op.arg.Public) = Found(op.arg)

\* C4's case: a successful AddKey into a store that already held another entry.
C4_Witness ==
    /\ op.name = "AddKey"
    /\ StructurallyValid(op.arg)
    /\ ret.err = Nil
    /\ calls >= 2
    /\ Cardinality(DOMAIN id) >= 2

\* C5 (P4, delete-by-id resolution): when AddKey(x) has succeeded and the next
\* call is DeleteKey with ID = x.ID and an empty Public, DeleteKey returns nil
\* and afterwards GetKeyFromID(x.ID) and GetKeyFromPublic(x.Public) fail with
\* not-found, and so does IsValid(x.Public).
C5_DeleteByIDResolution ==
    [][(/\ op.name = "AddKey"
        /\ ret.err = Nil
        /\ op'.name = "DeleteKey"
        /\ op'.arg.ID = op.arg.ID
        /\ op'.arg.Public = "")
       => /\ ret'.err = Nil
          /\ GetKeyFromID(Store', op.arg.ID).err = ErrNotFound
          /\ GetKeyFromPublic(Store', op.arg.Public).err = ErrNotFound
          /\ IsValid(Store', op.arg.Public) = ErrNotFound]_vars

\* C5's case: the second of two calls is an id-only DeleteKey that returned
\* nil, so the first was the AddKey of the entry it resolved.
C5_Witness ==
    /\ calls = 2
    /\ op.name = "DeleteKey"
    /\ op.arg.Public = ""
    /\ ret.err = Nil
    /\ IsValid(Store, PublicNames[1]) = ErrNotFound

\* C6 (pairwise consistency): after every completed call, each KeyPair the id
\* cache holds is the one the public cache holds under its Public, and each
\* KeyPair the public cache holds is the one the id cache holds under its ID.
C6_PairwiseConsistent ==
    /\ \A i \in DOMAIN id : GetKeyFromPublic(Store, id[i].ptr.Public) = Found(id[i].ptr)
    /\ \A p \in DOMAIN public : GetKeyFromID(Store, public[p].ptr.ID) = Found(public[p].ptr)

\* C7 (P6, overwrite by id): when x1 is resolvable by its ID and by its
\* Public and a valid x2 with the same ID and another Public is added, then
\* GetKeyFromID(ID) and GetKeyFromPublic(x2.Public) return x2, while
\* GetKeyFromPublic(x1.Public) still returns x1 and IsValid(x1.Public) is nil.
C7_OverwriteByID ==
    [][(op'.name = "AddKey" /\ StructurallyValid(op'.arg))
        => \A x1 \in KeyPair :
            (/\ op'.arg.ID = x1.ID
             /\ op'.arg.Public # x1.Public
             /\ GetKeyFromID(Store, x1.ID) = Found(x1)
             /\ GetKeyFromPublic(Store, x1.Public) = Found(x1))
            => /\ ret'.err = Nil
               /\ GetKeyFromID(Store', x1.ID) = Found(op'.arg)
               /\ GetKeyFromPublic(Store', op'.arg.Public) = Found(op'.arg)
               /\ GetKeyFromPublic(Store', x1.Public) = Found(x1)
               /\ IsValid(Store', x1.Public) = Nil]_vars

\* C7's case: two calls, the second a successful AddKey, and the public cache
\* holds under another Public a KeyPair with the ID just added.
C7_Witness ==
    /\ calls = 2
    /\ op.name = "AddKey"
    /\ ret.err = Nil
    /\ \E p \in DOMAIN public : p # op.arg.Public /\ public[p].ptr.ID = op.arg.ID

\* C8: a DeleteKey with an empty Public for an ID the id cache does not hold
\* returns not-found and leaves both caches as they were; and an id-only
\* DeleteKey that follows an id-only DeleteKey of the same ID returns not-found.
C8_DeleteByIDNotFound ==
    [][/\ (/\ op'.name = "DeleteKey"
            /\ op'.arg.Public = ""
            /\ op'.arg.ID \notin DOMAIN id)
           => /\ ret'.err = ErrNotFound
              /\ id' = id
              /\ public' = public
       /\ (/\ op.name = "DeleteKey"
            /\ op.arg.Public = ""
            /\ op'.name = "DeleteKey"
            /\ op'.arg.Public = ""
            /\ op'.arg.ID = op.arg.ID)
           => ret'.err = ErrNotFound]_vars

\* C8's case: an id-only DeleteKey of an absent, non-empty ID was refused on a
\* store that holds entries.
C8_Witness ==
    /\ op.name = "DeleteKey"
    /\ op.arg.Public = ""
    /\ op.arg.ID # ""
    /\ ret.err = ErrNotFound
    /\ DOMAIN id # {}
    /\ DOMAIN public # {}

\* C9: Validate returns nil iff ID, Public and Private are all non-empty;
\* otherwise it returns the error of the first empty field in the order ID,
\* Public, Private; and it leaves both caches as they were.
C9_Validate ==
    [][op'.name = "Validate"
       => /\ (ret'.err = Nil) <=> StructurallyValid(op'.arg)
          /\ op'.arg.ID = "" => ret'.err = ErrIDEmpty
          /\ (op'.arg.ID # "" /\ op'.arg.Public = "") => ret'.err = ErrPublicEmpty
          /\ (op'.arg.ID # "" /\ op'.arg.Public # "" /\ op'.arg.Private = "")
             => ret'.err = ErrPrivateEmpty
          /\ id' = id
          /\ public' = public]_vars

\* C9's case: Validate of a KeyPair whose ID and Public are both empty reported
\* the ID, on a store that holds entries.
C9_Witness ==
    /\ op.name = "Validate"
    /\ op.arg.ID = ""
    /\ op.arg.Public = ""
    /\ ret.err = ErrIDEmpty
    /\ DOMAIN id # {}

\* C10: in every state, also between the statements of concurrent calls, every
\* value in either cache is a *KeyPair with all three fields non-empty, an id
\* cache entry under key i has ID = i, a public cache entry under key p has
\* Public = p, and no lookup returns a malformed-value error.
C10_StoredKeyPairsValid ==
    /\ \A i \in DOMAIN id :
         /\ id[i].type = "*KeyPair"
         /\ StructurallyValid(id[i].ptr)
         /\ id[i].ptr.ID = i
    /\ \A p \in DOMAIN public :
         /\ public[p].type = "*KeyPair"
         /\ StructurallyValid(public[p].ptr)
         /\ public[p].ptr.Public = p
    /\ \A i \in IDs : GetKeyFromID(Store, i).err \in {Nil, ErrNotFound}
    /\ \A p \in Publics : GetKeyFromPublic(Store, p).err \in {Nil, ErrNotFound}

\* C10's case: both goroutines are inside a call, one of them an AddKey past
\* validation, and both caches hold entries.
C10_Witness ==
    /\ \A t \in Threads : pc[t] # "idle"
    /\ \E t \in Threads : pc[t] = "AddKey.public.Set"
    /\ DOMAIN id # {}
    /\ DOMAIN public # {}

\* Goroutine t is the only one inside a call.
OthersIdle(t) == \A u \in Threads \ {t} : pc[u] = "idle"

\* C11: AddKey is not atomic across its two writes.  When AddKey(x) makes its
\* first write and the public cache holds nothing under x.Public, the state
\* it leaves, with the call still in progress, is one in which
\* GetKeyFromID(x.ID) returns x while GetKeyFromPublic(x.Public) and
\* IsValid(x.Public) fail with not-found.
C11_AddKeyIntermediateState ==
    [][\A t \in Threads :
        (/\ pc[t] = "AddKey.id.Set"
         /\ pc'[t] # pc[t]
         /\ req[t].Public \notin DOMAIN public)
        => /\ pc'[t] = "AddKey.public.Set"
           /\ GetKeyFromID(Store', req[t].ID) = Found(req[t])
           /\ GetKeyFromPublic(Store', req[t].Public).err = ErrNotFound
           /\ IsValid(Store', req[t].Public) = ErrNotFound]_vars

\* C11's case: an AddKey between its two writes, seen by a reader.
C11_Witness ==
    \E t \in Threads :
        /\ pc[t] = "AddKey.public.Set"
        /\ GetKeyFromID(Store, req[t].ID) = Found(req[t])
        /\ GetKeyFromPublic(Store, req[t].Public).err = ErrNotFound
        /\ IsValid(Store, req[t].Public) = ErrNotFound

\* The reverse intermediate state for x: the public cache returns x while the
\* id cache has nothing under x.ID.
ReverseState(m, x) ==
    /\ GetKeyFromPublic(m, x.Public) = Found(x)
    /\ GetKeyFromID(m, x.ID).err = ErrNotFound

\* C12 as claimed: when a single AddKey(x) is in progress before its writes, on
\* a store with no entry for x.ID or x.Public and with no other call in
\* flight, the store can step to the reverse intermediate state for x.
C12_ReverseStateObservable ==
    \A t \in Threads :
        (/\ pc[t] = "AddKey.id.Set"
         /\ OthersIdle(t)
         /\ req[t].ID \notin DOMAIN id
         /\ req[t].Public \notin DOMAIN public)
        => ENABLED (/\ AddKeyIDSet(t)
                    /\ ReverseState(Store', req[t]))

\* C12 as amended: the reverse state is not observable.  When a single
\* AddKey(x) on a store with no entry for x.ID or x.Public, with no other call
\* in flight, makes its first write, the state it leaves has x under x.ID in
\* the id cache, so no reader sees GetKeyFromPublic(x.Public) return x while
\* GetKeyFromID(x.ID) fails; and its second write leaves x in both caches.
C12_ReverseStateNeverObserved ==
    [][\A t \in Threads :
        /\ (/\ pc[t] = "AddKey.id.Set"
             /\ pc'[t] # pc[t]
             /\ OthersIdle(t)
             /\ req[t].ID \notin DOMAIN id
             /\ req[t].Public \notin DOMAIN public)
            => /\ ~ReverseState(Store, req[t])
               /\ ~ReverseState(Store', req[t])
               /\ GetKeyFromID(Store', req[t].ID) = Found(req[t])
        /\ (/\ pc[t] = "AddKey.public.Set"
             /\ pc'[t] # pc[t]
             /\ OthersIdle(t)
             /\ GetKeyFromID(Store, req[t].ID) = Found(req[t]))
            => /\ ~ReverseState(Store', req[t])
               /\ GetKeyFromPublic(Store', req[t].Public) = Found(req[t])]_vars

\* C12's case: the first call ever made is an AddKey, it is between its two
\* writes, and the id cache already returns its KeyPair.
C12_Witness ==
    \E t \in Threads :
        /\ calls = 1
        /\ pc[t] = "AddKey.public.Set"
        /\ OthersIdle(t)
        /\ GetKeyFromID(Store, req[t].ID) = Found(req[t])
        /\ ~ReverseState(Store, req[t])

\* DeleteKey({ID}) of goroutine t resolved its k, and the id cache now holds
\* under that ID a KeyPair x2 with another Public, reachable by that Public.
Overwritten(t, x2) ==
    /\ k[t] # NilKeyPair
    /\ GetKeyFromID(Store, req[t].ID) = Found(x2)
    /\ x2.Public # k[t].Public
    /\ GetKeyFromPublic(Store, x2.Public) = Found(x2)

\* C13: DeleteKey's lookup-then-delete gap.  When the id that an id-only
\* DeleteKey resolved has since been overwritten by an AddKey of x2 with
\* another Public, DeleteKey's public Delete removes the entry of the old
\* Public and leaves the one of x2; and when DeleteKey then returns with no
\* other call in flight, IsValid(x2.Public) succeeds while GetKeyFromID of
\* x2's ID fails with not-found.
C13_DeleteKeyTimeOfCheckGap ==
    [][\A t \in Threads :
        (/\ pc[t] \in {"DeleteKey.public.Delete", "DeleteKey.id.Delete"}
         /\ pc'[t] # pc[t]
         /\ req[t].ID \in DOMAIN id)
        => LET x2 == id[req[t].ID].ptr IN
           Overwritten(t, x2)
           => /\ pc[t] = "DeleteKey.public.Delete"
                 => /\ GetKeyFromPublic(Store', k[t].Public).err = ErrNotFound
                    /\ GetKeyFromPublic(Store', x2.Public) = Found(x2)
              /\ (pc[t] = "DeleteKey.id.Delete" /\ OthersIdle(t))
                 => /\ \A u \in Threads : pc'[u] = "idle"
                    /\ IsValid(Store', x2.Public) = Nil
                    /\ GetKeyFromID(Store', x2.ID).err = ErrNotFound]_vars

\* C13's case: DeleteKey has removed the entry of the Public it resolved, the
\* overwriting AddKey has returned, and DeleteKey is about to delete the id.
C13_Witness ==
    \E t \in Threads : \E x2 \in KeyPair :
        /\ pc[t] = "DeleteKey.id.Delete"
        /\ OthersIdle(t)
        /\ Overwritten(t, x2)
        /\ k[t].Public \notin DOMAIN public

\* C15: inside an id-only DeleteKey the public cache entry goes first.  With
\* that call the only one in flight on an entry x held by both caches, its
\* public Delete leaves GetKeyFromID(x.ID) returning x while IsValid(x.Public)
\* fails, never IsValid(x.Public) succeeding while GetKeyFromID(x.ID) fails;
\* and its id Delete, with which it returns, leaves both failing.
C15_DeleteKeyOrdering ==
    [][\A t \in Threads :
        /\ (/\ pc[t] = "DeleteKey.public.Delete"
             /\ pc'[t] # pc[t]
             /\ OthersIdle(t)
             /\ GetKeyFromID(Store, req[t].ID) = Found(k[t])
             /\ GetKeyFromPublic(Store, k[t].Public) = Found(k[t]))
            => /\ pc'[t] = "DeleteKey.id.Delete"
               /\ GetKeyFromID(Store', req[t].ID) = Found(k[t])
               /\ IsValid(Store', k[t].Public) = ErrNotFound
        /\ (/\ pc[t] = "DeleteKey.id.Delete"
             /\ pc'[t] # pc[t]
             /\ OthersIdle(t)
             /\ k[t] # NilKeyPair
             /\ GetKeyFromID(Store, req[t].ID) = Found(k[t])
             /\ IsValid(Store, k[t].Public) = ErrNotFound)
            => /\ pc'[t] = "idle"
               /\ GetKeyFromID(Store', req[t].ID).err = ErrNotFound
               /\ IsValid(Store', k[t].Public) = ErrNotFound]_vars

\* C15's case: an id-only DeleteKey, alone in flight, between its two Deletes:
\* the id cache still returns the entry, the public cache no longer does.
C15_Witness ==
    \E t \in Threads :
        /\ pc[t] = "DeleteKey.id.Delete"
        /\ OthersIdle(t)
        /\ k[t] # NilKeyPair
        /\ GetKeyFromID(Store, req[t].ID) = Found(k[t])
        /\ IsValid(Store, k[t].Public) = ErrNotFound

\* C16: the lookups are pure and IsValid is the error of GetKeyFromPublic.
\* A call of IsValid(p) returns nil iff GetKeyFromPublic(p) returns a KeyPair
\* and otherwise its error, not-found; GetKeyFromID(i) fails with not-found
\* exactly when the id cache has no key i and else returns the KeyPair stored
\* there, GetKeyFromPublic(p) likewise for the public cache; and none of the
\* three calls changes either cache.
C16_LookupsPure ==
    [][/\ op'.name = "IsValid"
          => /\ ret'.err = GetKeyFromPublic(Store, op'.arg).err
             /\ (ret'.err = Nil) <=> (op'.arg \in DOMAIN public)
             /\ ret'.err \in {Nil, ErrNotFound}
             /\ id' = id /\ public' = public
       /\ op'.name = "GetKeyFromID"
          => /\ (ret'.err = ErrNotFound) <=> (op'.arg \notin DOMAIN id)
             /\ op'.arg \in DOMAIN id => ret' = Found(id[op'.arg].ptr)
             /\ id' = id /\ public' = public
       /\ op'.name = "GetKeyFromPublic"
          => /\ (ret'.err = ErrNotFound) <=> (op'.arg \notin DOMAIN public)
             /\ op'.arg \in DOMAIN public => ret' = Found(public[op'.arg].ptr)
             /\ id' = id /\ public' = public]_vars

\* C16's case: IsValid returned nil for a public key on a store that holds it.
C16_Witness ==
    /\ op.name = "IsValid"
    /\ ret.err = Nil
    /\ GetKeyFromPublic(Store, op.arg).err = Nil
    /\ DOMAIN id # {}

\* C17: public-key reuse across ids.  When x1 is stored under its ID and a
\* valid x2 with the same Public and another ID is added, AddKey returns nil,
\* GetKeyFromPublic(x1.Public) returns x2 and GetKeyFromID(x1.ID) still
\* returns x1; and when an id-only DeleteKey({ID: x1.ID}) is then made while x2
\* is stored under its own ID, it returns nil, IsValid(x2.Public) fails with
\* not-found and GetKeyFromID(x2.ID) still returns x2.
C17_PublicReuse ==
    [][/\ (op'.name = "AddKey" /\ StructurallyValid(op'.arg))
          => \A i \in DOMAIN id :
                LET x1 == id[i].ptr IN
                (/\ op'.arg.Public = x1.Public
                 /\ op'.arg.ID # x1.ID
                 /\ GetKeyFromID(Store, x1.ID) = Found(x1))
                => /\ ret'.err = Nil
                   /\ GetKeyFromPublic(Store', x1.Public) = Found(op'.arg)
                   /\ GetKeyFromID(Store', x1.ID) = Found(x1)
       /\ (op'.name = "DeleteKey" /\ op'.arg.Public = "")
          => \A i, j \in DOMAIN id :
                LET x1 == id[i].ptr
                    x2 == id[j].ptr
                IN
                (/\ op'.arg.ID = x1.ID
                 /\ x2.Public = x1.Public
                 /\ x2.ID # x1.ID
                 /\ GetKeyFromID(Store, x1.ID) = Found(x1)
                 /\ GetKeyFromID(Store, x2.ID) = Found(x2))
                => /\ ret'.err = Nil
                   /\ IsValid(Store', x2.Public) = ErrNotFound
                   /\ GetKeyFromID(Store', x2.ID) = Found(x2)]_vars

\* C17's case: the third call, an id-only DeleteKey, returned nil and left in
\* the id cache a KeyPair whose Public the public cache no longer holds; the
\* two calls before it added two KeyPairs with that Public under two ids.
C17_Witness ==
    /\ calls = 3
    /\ op.name = "DeleteKey"
    /\ op.arg.Public = ""
    /\ ret.err = Nil
    /\ \E i \in DOMAIN id : IsValid(Store, id[i].ptr.Public) = ErrNotFound

\* C18: a DeleteKey whose argument has a non-empty Public returns nil whether
\* or not the id cache holds its ID and whatever the Public is; it removes
\* the id cache entry under that ID and leaves every other id cache entry as
\* it was.
C18_FullDeleteNeverFails ==
    [][(op'.name = "DeleteKey" /\ op'.arg.Public # "")
       => /\ ret'.err = Nil
          /\ DOMAIN id' = DOMAIN id \ {op'.arg.ID}
          /\ \A i \in DOMAIN id' : id'[i] = id[i]]_vars

\* C18's case: the second call is a DeleteKey with a Public; the id cache
\* still holds the entry the first call added, so the ID deleted had none.
C18_Witness ==
    /\ calls = 2
    /\ op.name = "DeleteKey"
    /\ op.arg.Public # ""
    /\ ret.err = Nil
    /\ DOMAIN id # {}

----------------------------------------------------------------------------
\* The store after the recorded calls are run one at a time, each as a whole.

ApplyCall(m, c) ==
    IF c.name = "AddKey" THEN AddKey(m, c.arg).m ELSE DeleteKey(m, c.arg).m

RECURSIVE RunSequentially(_, _)
RunSequentially(m, s) ==
    IF s = << >> THEN m ELSE RunSequentially(ApplyCall(m, Head(s)), Tail(s))

\* Every sequential order of the calls of s.
Orders(s) ==
    LET n == Len(s)
        Bijections == {f \in [1..n -> 1..n] :
                          \A a, b \in 1..n : f[a] = f[b] => a = b}
    IN {[j \in 1..n |-> s[f[j]]] : f \in Bijections}

Quiescent == \A t \in Threads : pc[t] = "idle"

\* C14: the composite operations are atomic.  Whenever every AddKey and
\* DeleteKey call made by the goroutines has returned, the id cache and the
\* public cache hold what running the same calls one at a time produces from
\* the empty store in some sequential order.
C14_CompositeOperationsAtomic ==
    Quiescent =>
        \E o \in Orders(log) : RunSequentially(NewMemKeyPairStorage, o) = Store

\* C19: with no Public ever stored under two different IDs, after any series
\* of completed AddKey and DeleteKey calls every id cache entry x has a public
\* cache entry under x.Public holding the same KeyPair: whatever resolves by
\* ID is valid by its Public.
C19_ResolvableByIDIsValid ==
    \A i \in DOMAIN id :
        /\ GetKeyFromPublic(Store, id[i].ptr.Public) = Found(id[i].ptr)
        /\ IsValid(Store, id[i].ptr.Public) = Nil

\* The converse fails in the same state: a full-form DeleteKey has returned,
\* the id cache still has an entry, and a public cache entry is stale, its
\* KeyPair no longer resolvable by ID.
C19_Witness ==
    /\ op.name = "DeleteKey"
    /\ op.arg.Public # ""
    /\ DOMAIN id # {}
    /\ \E p \in DOMAIN public :
           GetKeyFromID(Store, public[p].ptr.ID).err = ErrNotFound
====
